---------------------------- MODULE Spec2Model ----------------------------
(***************************************************************************)
(* Rover teleoperation scripts of ProjectAirsim_Trials.                    *)
(*                                                                         *)
(*   px4   : px4_keyboard_drone_rover.py        (edge-set keyboard loop)   *)
(*   chase : px4_keyboard_drone_rover_chase.py  (edge-set keyboard loop,   *)
(*           two-phase connection)                                         *)
(*   xbox  : xbox_keyboard_drone_rover.py       (polled single-key loop)   *)
(*   car   : drone_car.py                       (scripted motion pattern)  *)
(*                                                                         *)
(* Actuator values are fixed-point numbers in thousandths: 1.0 is 1000,    *)
(* 0.02 is 20, 0.002 is 2.  Every value the loops compute is nominally a   *)
(* multiple of 0.002; the doubles of the code differ from the nominal      *)
(* value by rounding errors near 1e-15 between the targets, and are exact  *)
(* at the targets -1.0, 0.0 and 1.0, where min() and max() clamp.          *)
(***************************************************************************)
EXTENDS Integers, Sequences, FiniteSets, TLC

\* ------------------------------------------------------------------ constants

\* the literal 1.0 of the sources, in thousandths
ONE == 1000

ENGINE_STEP_PX4 == 2
ENGINE_STEP_CHASE == 20
ENGINE_STEP_XBOX == 100
STEER_STEP_KEYS == 50
STEER_STEP_XBOX == 150
ENGINE_MIN == -1000
ENGINE_MAX == 1000
STEER_MIN == -1000
STEER_MAX == 1000
\* the 0.01 of the dispatch condition
EPSILON == 10

\* ------------------------------------------------------------------ bounds

\* ticks of the edge-set loop explored from the state after construction
MaxTicks == 2
\* ticks explored from a sampled mid-run state of the edge-set loop
MaxStepTicks == 1
\* the sampled mid-run states lie within Near ramp steps of -1.0, 0 and 1.0
Near == 0

\* ------------------------------------------------------------------ helpers

Min(a, b) == IF a < b THEN a ELSE b
Max(a, b) == IF a > b THEN a ELSE b
Abs(a) == IF a < 0 THEN -a ELSE a

Scripts == {"px4", "chase", "xbox"}
EdgeSet(s) == s \in {"px4", "chase"}

\* every script with a rover control path: the three teleoperation scripts
\* and drone_car.py (control_rover)
ControlPaths == Scripts \cup {"car"}

ENGINE_STEP(s) ==
    CASE s = "px4" -> ENGINE_STEP_PX4
      [] s = "chase" -> ENGINE_STEP_CHASE
      [] OTHER -> ENGINE_STEP_XBOX

STEER_STEP(s) == IF s = "xbox" THEN STEER_STEP_XBOX ELSE STEER_STEP_KEYS

\* Key.up, Key.down, Key.left, Key.right, Key.space and KeyCode 'q'
Keys == {"up", "down", "left", "right", "space", "q"}
QuitKey == "q"

\* bytes msvcrt.getch() may return; "x" stands for every unmapped key
PollKeys == {"w", "W", "s", "S", "a", "A", "d", "D", " ", "0", "q", "Q", "x"}

Cmd(e, s, b) == [engine |-> e, steering_angle |-> s, brake |-> b]
StopCmd == Cmd(0, 0, ONE)

\* control_rover's "Move forward": engine=0.4
CAR_ENGINE == 400
ForwardCmd == Cmd(CAR_ENGINE, 0, 0)

VARIABLES
    script,            \* which script runs
    proc,              \* "alive" | "exited": the operating-system process
    keys_pressed,      \* rover_state.keys_pressed
    running,           \* rover_state.running (xbox: the loop's local `running`)
    listener,          \* "none" | "running" | "stopped": the pynput listener
    rpc,               \* position of the rover control path
    engine, steer, brake,
    target_engine, target_steer, new_brake, controls_updated,
    mpc,               \* position of the main thread
    client,            \* "connected" | "disconnected"
    api_control, armed,
    lastIssued,        \* <<>> or <<c>>: the last command handed to set_rover_controls
    lastRecv,          \* <<>> or <<c>>: the last command whose send completed
    disarms, disables, \* calls of rover.disarm() / rover.disable_api_control()
    stops,             \* sends of the final stop command attempted
    sent,              \* "none" | "ok" | "failed": what the latest dispatch did
    ramp_from,         \* <<engine, steer>> when the loop was entered
    seen,              \* the targets of every key-set state of the running tick
                       \* (empty where the key-set states are not recorded)
    falseWrites,       \* assignments rover_state.running = False executed
    budget,            \* ticks of the edge-set loop still explored
    \* the two-phase connection of chase's main() and of client_inspect
    cpc,               \* position in the connection sequence
    sessA, sessB,      \* client_loader / client: "new" | "connected" | "disconnected"
    worldClient,       \* world.client: "none" | "A" | "B"
    clock,             \* seconds since the script started
    loadedAt,          \* when the World was built (the scene load triggered), or -1
    wakeAt,            \* when time.sleep returns
    regDelay,          \* seconds after the load at which Rover1 registers its topics
    sceneTopics,       \* the topic names Rover1 registers (from the scene config)
    hasAttr,           \* hasattr(client, 'topics_info_list') / hasattr(client, 'topics')
    listB,             \* the topic list session B fetched when it connected
    connectedAtB,      \* when session B connected, or -1
    report,            \* what the verification logged
    vehicles,          \* the vehicle objects constructed
    staleUse,          \* an operation was issued on a session not connected
    phases             \* the phases run so far, in order

vars == <<script, proc, keys_pressed, running, listener, rpc, engine, steer, brake,
          target_engine, target_steer, new_brake, controls_updated, mpc, client,
          api_control, armed, lastIssued, lastRecv, disarms, disables, stops,
          falseWrites, budget, sent, ramp_from, seen, cpc, sessA, sessB, worldClient, clock, loadedAt,
          wakeAt, regDelay, sceneTopics, hasAttr, listB, connectedAtB, report,
          vehicles, staleUse, phases>>

connVars == <<cpc, sessA, sessB, worldClient, clock, loadedAt, wakeAt, regDelay,
              sceneTopics, hasAttr, listB, connectedAtB, report, vehicles, staleUse,
              phases>>
teleopVars == <<proc, keys_pressed, running, listener, rpc, engine, steer, brake,
                target_engine, target_steer, new_brake, controls_updated, mpc,
                client, api_control, armed, lastIssued, lastRecv, disarms, disables,
                stops, sent, falseWrites, budget, seen>>

loopVars == <<engine, steer, brake, target_engine, target_steer, new_brake,
              controls_updated>>
authVars == <<api_control, armed, disarms, disables>>
cmdVars == <<lastIssued, lastRecv, stops, sent>>
constVars == <<script, ramp_from>>
sharedVars == <<keys_pressed, running, listener, falseWrites, seen>>

\* ------------------------------------------------------------------ Init

\* the state when __main__ has connected the client, built the World and
\* (px4, xbox) started the rover thread, or (chase) reached ROVER SETUP
\* the connection sequence is over: session B is the connected client
ConnDone ==
    /\ cpc = "handoff"
    /\ sessA = "disconnected" /\ sessB = "connected"
    /\ worldClient = "B"
    /\ clock = 0 /\ loadedAt = 0 /\ wakeAt = 0 /\ regDelay = 0
    /\ sceneTopics = {} /\ hasAttr = FALSE /\ listB = {}
    /\ connectedAtB = 0
    /\ report = [kind |-> "none", n |-> 0]
    /\ vehicles = {}
    /\ staleUse = FALSE
    /\ phases = <<>>

Init ==
    /\ ConnDone
    /\ script \in ControlPaths
    /\ proc = "alive"
    /\ keys_pressed = {}
    /\ running = TRUE
    /\ listener = "none"
    /\ rpc = "construct"
    /\ engine = 0 /\ steer = 0 /\ brake = 0
    /\ target_engine = 0 /\ target_steer = 0 /\ new_brake = 0
    /\ controls_updated = FALSE
    /\ mpc = CASE script = "chase" -> "setup"
               [] script = "xbox" -> "rc_load"
               [] script = "car" -> "gather"
               [] OTHER -> "loop"
    /\ client = "connected"
    /\ api_control = FALSE /\ armed = FALSE
    /\ lastIssued = <<>> /\ lastRecv = <<>>
    /\ disarms = 0 /\ disables = 0 /\ stops = 0
    /\ falseWrites = 0
    /\ budget = MaxTicks
    /\ sent = "none"
    /\ ramp_from = <<engine, steer>>
    /\ seen = {}


\* ------------------------------------------------------------------ set-up

\* An exception of Rover(...), enable_api_control() or arm():
\* px4 logs and calls os._exit(1); xbox logs and lets the thread end; chase
\* logs "Continuing with Drone only..." and goes on to the main loop; in
\* drone_car the exception reaches main's handler, which logs, and the
\* finally block.
SetupFailed ==
    /\ rpc' = "failed"
    /\ proc' = IF script = "px4" THEN "exited" ELSE proc
    /\ mpc' = CASE script = "chase" -> "loop"
                [] script = "car" -> "finally"
                [] OTHER -> mpc

\* rover = projectairsim.Rover(client, world, rover_name)
RoverConstruct ==
    /\ proc = "alive" /\ rpc = "construct"
    /\ \/ /\ rpc' = "enable"
          /\ UNCHANGED <<proc, mpc>>
       \/ SetupFailed
    /\ UNCHANGED <<connVars, constVars, sharedVars, loopVars, client, authVars, cmdVars, budget>>

\* rover.enable_api_control()
RoverEnable ==
    /\ proc = "alive" /\ rpc = "enable"
    /\ \/ /\ rpc' = "arm"
          /\ api_control' = TRUE
          /\ UNCHANGED <<proc, mpc>>
       \/ /\ SetupFailed
          /\ UNCHANGED api_control
    /\ UNCHANGED <<connVars, constVars, sharedVars, loopVars, client, armed, disarms, disables,
                   cmdVars, budget>>

\* a set-up that goes on to the commands without calling rover.arm()
RoverArmOmitted ==
    /\ proc = "alive" /\ rpc = "arm"
    /\ rpc' = CASE script = "chase" -> "spawn"
                [] script = "xbox" -> "while"
                [] script = "car" -> "fwd"
                [] OTHER -> "listen"
    /\ UNCHANGED <<connVars, constVars, proc, mpc, sharedVars, loopVars, client, authVars,
                   cmdVars, budget>>

\* rover.arm(); then asyncio.run(rover_keyboard_loop(rover)) in px4 and xbox,
\* the camera set-up and the thread start in chase
RoverArm ==
    /\ proc = "alive" /\ rpc = "arm"
    /\ \/ /\ rpc' = CASE script = "chase" -> "spawn"
                      [] script = "xbox" -> "while"
                      [] script = "car" -> "fwd"
                      [] OTHER -> "listen"
          /\ armed' = TRUE
          /\ UNCHANGED <<proc, mpc>>
       \/ /\ SetupFailed
          /\ UNCHANGED armed
    /\ UNCHANGED <<connVars, constVars, sharedVars, loopVars, client, api_control, disarms,
                   disables, cmdVars, budget>>

\* chase: rover_thread.start(), after which main goes on to its loop
ThreadStart ==
    /\ proc = "alive" /\ script = "chase" /\ rpc = "spawn" /\ mpc = "setup"
    /\ rpc' = "listen"
    /\ mpc' = "loop"
    /\ UNCHANGED <<connVars, constVars, proc, sharedVars, loopVars, client, authVars, cmdVars,
                   budget>>

\* listener = keyboard.Listener(on_press, on_release); listener.start()
ListenerStart ==
    /\ proc = "alive" /\ rpc = "listen"
    /\ listener' = "running"
    /\ rpc' = "while"
    /\ UNCHANGED <<connVars, constVars, proc, seen, keys_pressed, running, falseWrites, loopVars, mpc,
                   client, authVars, cmdVars, budget>>

\* ------------------------------------------------------------------ listener thread

\* <<target_engine, target_steer, new_brake>> as the tests of a tick give
\* them for a key set K that does not change between the tests
Targets(K) ==
    IF "space" \in K THEN <<0, 0, ONE>>
    ELSE <<IF "up" \in K THEN ONE ELSE IF "down" \in K THEN -ONE ELSE 0,
           IF "left" \in K THEN -ONE ELSE IF "right" \in K THEN ONE ELSE 0,
           0>>

\* the record of the tick's key-set states after the set has become K;
\* between two ticks the record holds the current state only
Recorded(K) ==
    IF seen = {} THEN {}
    ELSE IF rpc = "while" THEN {Targets(K)}
    ELSE seen \cup {Targets(K)}

\* the pynput listener thread dies of an error of its event source; nothing
\* in the scripts joins the listener or looks at its state
ListenerCrash ==
    /\ proc = "alive" /\ listener = "running"
    /\ listener' = "dead"
    /\ UNCHANGED <<connVars, constVars, proc, seen, keys_pressed, running, falseWrites, rpc,
                   loopVars, mpc, client, authVars, cmdVars, budget>>

\* a quit key that toggles the flag
QuitToggles == ~running

\* what on_release stores in rover_state.running for the quit key
QuitValue == FALSE

\* on_press(key)
on_press(key) ==
    /\ proc = "alive" /\ listener = "running"
    /\ keys_pressed' = keys_pressed \cup {key}
    /\ seen' = Recorded(keys_pressed')
    /\ UNCHANGED <<connVars, constVars, proc, running, listener, falseWrites, rpc, loopVars, mpc,
                   client, authVars, cmdVars, budget>>

\* an on_release that returns None for the quit key: the listener goes on
on_release_listening(key) ==
    /\ proc = "alive" /\ listener = "running"
    /\ IF key = QuitKey
          THEN /\ running' = FALSE
               /\ falseWrites' = falseWrites + 1
               /\ UNCHANGED <<keys_pressed, listener>>
          ELSE /\ keys_pressed' = keys_pressed \ {key}
               /\ UNCHANGED <<running, falseWrites, listener>>
    /\ seen' = Recorded(keys_pressed')
    /\ UNCHANGED <<connVars, constVars, proc, rpc, loopVars, mpc, client, authVars,
                   cmdVars, budget>>

\* on_release(key): the quit key stores False, returns False (which stops the
\* listener) and does not reach the removal; any other key is removed if present
on_release(key) ==
    /\ proc = "alive" /\ listener = "running"
    /\ IF key = QuitKey
          THEN /\ running' = QuitValue
               /\ falseWrites' = falseWrites + 1
               /\ listener' = "stopped"
               /\ UNCHANGED keys_pressed
          ELSE /\ keys_pressed' = IF key \in keys_pressed
                                     THEN keys_pressed \ {key}
                                     ELSE keys_pressed
               /\ UNCHANGED <<running, falseWrites, listener>>
    /\ seen' = Recorded(keys_pressed')
    /\ UNCHANGED <<connVars, constVars, proc, rpc, loopVars, mpc, client, authVars, cmdVars, budget>>

\* ------------------------------------------------------------------ edge-set loop

\* `while rover_state.running:` (the tick's locals hold their top-of-tick
\* values, see Send); when the flag is false the loop is left and
\* listener.stop() is called
WhileTest ==
    /\ proc = "alive" /\ EdgeSet(script) /\ rpc = "while"
    /\ IF running
          THEN /\ budget > 0
               /\ budget' = budget - 1
               /\ rpc' = "up"
               /\ seen' = IF seen = {} THEN {} ELSE {Targets(keys_pressed)}
               /\ UNCHANGED listener
          ELSE /\ rpc' = "final_send"
               /\ listener' = "stopped"
               /\ budget' = 0
               /\ UNCHANGED seen
    /\ UNCHANGED <<connVars, constVars, proc, keys_pressed, running, falseWrites, loopVars, mpc,
                   client, authVars, cmdVars>>

\* a forward test followed by `if Key.down` in place of `elif Key.down`
TestUpYields ==
    /\ proc = "alive" /\ rpc = "up"
    /\ target_engine' = IF "up" \in keys_pressed THEN ONE ELSE target_engine
    /\ rpc' = "down"
    /\ UNCHANGED <<connVars, constVars, proc, sharedVars, engine, steer, brake, target_steer,
                   new_brake, controls_updated, mpc, client, authVars, cmdVars, budget>>

\* `if Key.up in rover_state.keys_pressed:` ... `elif Key.down in ...`
TestUp ==
    /\ proc = "alive" /\ rpc = "up"
    /\ IF "up" \in keys_pressed
          THEN target_engine' = ONE /\ rpc' = "left"
          ELSE UNCHANGED target_engine /\ rpc' = "down"
    /\ UNCHANGED <<connVars, constVars, proc, sharedVars, engine, steer, brake, target_steer,
                   new_brake, controls_updated, mpc, client, authVars, cmdVars, budget>>

TestDown ==
    /\ proc = "alive" /\ rpc = "down"
    /\ target_engine' = IF "down" \in keys_pressed THEN -ONE ELSE target_engine
    /\ rpc' = "left"
    /\ UNCHANGED <<connVars, constVars, proc, sharedVars, engine, steer, brake, target_steer,
                   new_brake, controls_updated, mpc, client, authVars, cmdVars, budget>>

\* `if Key.left in rover_state.keys_pressed:` ... `elif Key.right in ...`
TestLeft ==
    /\ proc = "alive" /\ rpc = "left"
    /\ IF "left" \in keys_pressed
          THEN target_steer' = -ONE /\ rpc' = "space"
          ELSE UNCHANGED target_steer /\ rpc' = "right"
    /\ UNCHANGED <<connVars, constVars, proc, sharedVars, engine, steer, brake, target_engine,
                   new_brake, controls_updated, mpc, client, authVars, cmdVars, budget>>

TestRight ==
    /\ proc = "alive" /\ rpc = "right"
    /\ target_steer' = IF "right" \in keys_pressed THEN ONE ELSE target_steer
    /\ rpc' = "space"
    /\ UNCHANGED <<connVars, constVars, proc, sharedVars, engine, steer, brake, target_engine,
                   new_brake, controls_updated, mpc, client, authVars, cmdVars, budget>>

\* a brake key that leaves the direction keys' targets in force
BrakeKeepsTargets(held, te, ts, nb) == IF held THEN <<te, ts, ONE>> ELSE <<te, ts, nb>>

\* <<target_engine, target_steer, new_brake>> after
\* `if Key.space in rover_state.keys_pressed:`: the brake key sets
\* new_brake = 1.0 and both targets to 0.0
BrakeOverride(held, te, ts, nb) == IF held THEN <<0, 0, ONE>> ELSE <<te, ts, nb>>

TestSpace ==
    /\ proc = "alive" /\ rpc = "space"
    /\ target_engine' =
         BrakeOverride("space" \in keys_pressed, target_engine, target_steer, new_brake)[1]
    /\ target_steer' =
         BrakeOverride("space" \in keys_pressed, target_engine, target_steer, new_brake)[2]
    /\ new_brake' =
         BrakeOverride("space" \in keys_pressed, target_engine, target_steer, new_brake)[3]
    /\ rpc' = "ramp"
    /\ UNCHANGED <<connVars, constVars, proc, sharedVars, engine, steer, brake,
                   controls_updated, mpc, client, authVars, cmdVars, budget>>

\* a ramp that sets the value to its target at once
RampAxisInstant(cur, target, step) == target

\* a ramp that steps while the target is not passed and never clamps
RampAxisOvershoot(cur, target, step) ==
    IF cur <= target /\ target > 0 THEN cur + step
    ELSE IF cur >= target /\ target < 0 THEN cur - step
    ELSE IF cur < target THEN cur + step
    ELSE IF cur > target THEN cur - step
    ELSE cur

\* a ramp that steps only while a full step stays short of the target
RampAxisStrict(cur, target, step) ==
    IF cur + step < target THEN cur + step
    ELSE IF cur - step > target THEN cur - step
    ELSE cur

\* one axis of the ramp: min(cur + step, target) below the target,
\* max(cur - step, target) above it, unchanged at it
RampAxis(cur, target, step) ==
    IF cur < target THEN Min(cur + step, target)
    ELSE IF cur > target THEN Max(cur - step, target)
    ELSE cur

\* a brake that is ramped like the steering
BrakeRamped(cur, nb) ==
    IF cur < nb THEN Min(cur + STEER_STEP_KEYS, nb)
    ELSE IF cur > nb THEN Max(cur - STEER_STEP_KEYS, nb)
    ELSE cur

\* a brake that is set and never released
BrakeLatched(cur, nb) == IF nb = ONE THEN ONE ELSE cur

\* `if brake != new_brake: brake = new_brake`
BrakeSet(cur, nb) == IF cur # nb THEN nb ELSE cur

\* the ramping block and the brake block of one tick
Ramp ==
    /\ proc = "alive" /\ rpc = "ramp"
    /\ engine' = RampAxis(engine, target_engine, ENGINE_STEP(script))
    /\ steer' = RampAxis(steer, target_steer, STEER_STEP(script))
    /\ brake' = BrakeSet(brake, new_brake)
    /\ controls_updated' = (\/ engine # target_engine
                            \/ steer # target_steer
                            \/ brake # new_brake)
    /\ rpc' = "send"
    /\ UNCHANGED <<connVars, constVars, proc, sharedVars, target_engine, target_steer, new_brake,
                   mpc, client, authVars, cmdVars, budget>>

\* a dispatch condition that looks at the magnitudes only
MustSendOffNeutral(upd, e, s) == Abs(e) > EPSILON \/ Abs(s) > EPSILON

\* a dispatch condition that sends only what the tick changed
MustSendOnChange(upd, e, s) == upd

\* `if controls_updated or abs(engine) > 0.01 or abs(steer) > 0.01:`
MustSend(upd, e, s) == upd \/ Abs(e) > EPSILON \/ Abs(s) > EPSILON

\* ------------------------------------------------------------------ command sends

\* `await rover.set_rover_controls(...)` completes: the vehicle has the command
SendOk(c) ==
    /\ client = "connected"
    /\ lastIssued' = <<c>>
    /\ lastRecv' = <<c>>
    /\ sent' = "ok"

\* `await rover.set_rover_controls(...)` raises (a transport failure, or the
\* client is disconnected): the vehicle does not get the command
SendRaises(c) ==
    /\ lastIssued' = <<c>>
    /\ sent' = "failed"
    /\ UNCHANGED lastRecv

\* where an exception of the per-tick send takes the rover path: chase
\* swallows it (`except Exception: pass`) and sleeps; px4 has no handler in
\* the loop, so start_rover_keyboard_control logs and calls os._exit(1)
TickSendRaised ==
    IF script = "chase"
       THEN rpc' = "while" /\ UNCHANGED proc
       ELSE rpc' = "failed" /\ proc' = "exited"

\* the dispatch of one tick, followed by asyncio.sleep(0.02).  The tick's
\* locals (controls_updated, the targets, new_brake) are dead from here on:
\* the next tick assigns them before it reads them, so they are given their
\* top-of-tick values here already
Send ==
    /\ proc = "alive" /\ EdgeSet(script) /\ rpc = "send"
    /\ IF MustSend(controls_updated, engine, steer)
          THEN \/ /\ SendOk(Cmd(engine, steer, brake))
                  /\ rpc' = "while"
                  /\ UNCHANGED proc
               \/ /\ SendRaises(Cmd(engine, steer, brake))
                  /\ TickSendRaised
          ELSE /\ rpc' = "while"
               /\ sent' = "none"
               /\ UNCHANGED <<proc, lastIssued, lastRecv>>
    /\ controls_updated' = FALSE
    /\ target_engine' = 0
    /\ target_steer' = 0
    /\ new_brake' = 0
    /\ seen' = IF seen = {} THEN {} ELSE {Targets(keys_pressed)}
    /\ UNCHANGED <<connVars, constVars, keys_pressed, running, listener, falseWrites,
                   engine, steer, brake, mpc, client, authVars, stops, budget>>

\* the per-tick `await rover.set_rover_controls(...)` (in xbox also the
\* `await task`) is entered and the transport never completes it: no call of
\* the three loops carries a timeout, so the coroutine stays in the await
SendHangs ==
    /\ proc = "alive" /\ script \in Scripts /\ rpc = "send"
    /\ EdgeSet(script) => MustSend(controls_updated, engine, steer)
    /\ lastIssued' = <<Cmd(engine, steer, brake)>>
    /\ sent' = "pending"
    /\ rpc' = "awaiting"
    /\ UNCHANGED <<connVars, constVars, proc, sharedVars, loopVars, mpc, client, authVars,
                   lastRecv, stops, budget>>

\* where an exception of the final send takes the rover path: chase's bare
\* `except: pass` skips disarm and disable_api_control; px4 calls os._exit(1)
FinalSendRaised ==
    IF script = "chase"
       THEN rpc' = "done" /\ UNCHANGED proc
       ELSE rpc' = "failed" /\ proc' = "exited"

\* `await rover.set_rover_controls(engine=0.0, steering_angle=0.0, brake=1.0)`
FinalSend ==
    /\ proc = "alive" /\ EdgeSet(script) /\ rpc = "final_send"
    /\ stops' = stops + 1
    /\ \/ /\ SendOk(StopCmd)
          /\ rpc' = "disarm"
          /\ UNCHANGED proc
       \/ /\ SendRaises(StopCmd)
          /\ FinalSendRaised
    /\ UNCHANGED <<connVars, constVars, sharedVars, loopVars, mpc, client, authVars, budget>>

\* rover.disarm()
Disarm ==
    /\ proc = "alive" /\ rpc = "disarm"
    /\ armed' = FALSE
    /\ disarms' = disarms + 1
    /\ rpc' = "disable"
    /\ UNCHANGED <<connVars, constVars, proc, sharedVars, loopVars, mpc, client, api_control,
                   disables, cmdVars, budget>>

\* rover.disable_api_control(); the loop coroutine returns
Disable ==
    /\ proc = "alive" /\ rpc = "disable"
    /\ api_control' = FALSE
    /\ disables' = disables + 1
    /\ rpc' = "done"
    /\ UNCHANGED <<connVars, constVars, proc, sharedVars, loopVars, mpc, client, armed, disarms,
                   cmdVars, budget>>

\* ------------------------------------------------------------------ polled loop (xbox)

\* key branches whose brake key leaves the engine as it is
PollUpdateBrakeOnly(key, e, s, b) ==
    CASE key \in {"w", "W"} -> <<Min(e + ENGINE_STEP_XBOX, ENGINE_MAX), s, 0>>
      [] key \in {"s", "S"} -> <<Max(e - ENGINE_STEP_XBOX, ENGINE_MIN), s, 0>>
      [] key \in {"a", "A"} -> <<e, Max(s - STEER_STEP_XBOX, STEER_MIN), b>>
      [] key \in {"d", "D"} -> <<e, Min(s + STEER_STEP_XBOX, STEER_MAX), b>>
      [] key = " " -> <<e, s, ONE>>
      [] key = "0" -> <<0, 0, 0>>
      [] OTHER -> <<e, s, b>>

\* key branches whose throttle keys leave the brake as it is
PollUpdateThrottleOnly(key, e, s, b) ==
    CASE key \in {"w", "W"} -> <<Min(e + ENGINE_STEP_XBOX, ENGINE_MAX), s, b>>
      [] key \in {"s", "S"} -> <<Max(e - ENGINE_STEP_XBOX, ENGINE_MIN), s, b>>
      [] key \in {"a", "A"} -> <<e, Max(s - STEER_STEP_XBOX, STEER_MIN), b>>
      [] key \in {"d", "D"} -> <<e, Min(s + STEER_STEP_XBOX, STEER_MAX), b>>
      [] key = " " -> <<0, s, ONE>>
      [] key = "0" -> <<0, 0, 0>>
      [] OTHER -> <<e, s, b>>

\* the key branches of the polled loop: the new (engine, steer, brake)
PollUpdate(key, e, s, b) ==
    CASE key \in {"w", "W"} -> <<Min(e + ENGINE_STEP_XBOX, ENGINE_MAX), s, 0>>
      [] key \in {"s", "S"} -> <<Max(e - ENGINE_STEP_XBOX, ENGINE_MIN), s, 0>>
      [] key \in {"a", "A"} -> <<e, Max(s - STEER_STEP_XBOX, STEER_MIN), b>>
      [] key \in {"d", "D"} -> <<e, Min(s + STEER_STEP_XBOX, STEER_MAX), b>>
      [] key = " " -> <<0, s, ONE>>
      [] key = "0" -> <<0, 0, 0>>
      [] OTHER -> <<e, s, b>>

\* `if msvcrt.kbhit(): key = msvcrt.getch()` and the branch of the key; the
\* quit key clears `running` and continues without sending
XboxPoll(key) ==
    /\ proc = "alive" /\ script = "xbox" /\ rpc = "while" /\ running
    /\ IF key \in {"q", "Q"}
          THEN /\ running' = FALSE
               /\ falseWrites' = falseWrites + 1
               /\ UNCHANGED <<rpc, engine, steer, brake>>
          ELSE /\ engine' = PollUpdate(key, engine, steer, brake)[1]
               /\ steer' = PollUpdate(key, engine, steer, brake)[2]
               /\ brake' = PollUpdate(key, engine, steer, brake)[3]
               /\ rpc' = "send"
               /\ UNCHANGED <<running, falseWrites>>
    /\ UNCHANGED <<connVars, constVars, proc, seen, keys_pressed, listener, target_engine, target_steer,
                   new_brake, controls_updated, mpc, client, authVars, cmdVars, budget>>

\* `task = await rover.set_rover_controls(...); await task`, then the sleep;
\* an exception ends the thread in start_rover_keyboard_control's handler
XboxSend ==
    /\ proc = "alive" /\ script = "xbox" /\ rpc = "send"
    /\ \/ /\ SendOk(Cmd(engine, steer, brake))
          /\ rpc' = "while"
       \/ /\ SendRaises(Cmd(engine, steer, brake))
          /\ rpc' = "failed"
    /\ UNCHANGED <<connVars, constVars, proc, sharedVars, loopVars, mpc, client, authVars, stops,
                   budget>>

\* `while running:` found false: on to the tidy shutdown (no stop command)
XboxExit ==
    /\ proc = "alive" /\ script = "xbox" /\ rpc = "while" /\ ~running
    /\ rpc' = "disarm"
    /\ UNCHANGED <<connVars, constVars, proc, sharedVars, loopVars, mpc, client, authVars, cmdVars,
                   budget>>

\* ------------------------------------------------------------------ scripted pattern (car)

\* `task = await rover.set_rover_controls(engine=0.4, ...); await task`; an
\* exception leaves control_rover and the gather, for main's handler
CarForward ==
    /\ proc = "alive" /\ script = "car" /\ rpc = "fwd"
    /\ \/ /\ SendOk(ForwardCmd)
          /\ rpc' = "stop"
          /\ UNCHANGED mpc
       \/ /\ SendRaises(ForwardCmd)
          /\ rpc' = "failed"
          /\ mpc' = "finally"
    /\ UNCHANGED <<connVars, constVars, proc, sharedVars, loopVars, client, authVars, stops,
                   budget>>

\* `task = await rover.set_rover_controls(engine=0.0, ..., brake=1.0); await task`
CarStop ==
    /\ proc = "alive" /\ script = "car" /\ rpc = "stop"
    /\ stops' = stops + 1
    /\ \/ /\ SendOk(StopCmd)
          /\ rpc' = "disarm"
          /\ UNCHANGED mpc
       \/ /\ SendRaises(StopCmd)
          /\ rpc' = "failed"
          /\ mpc' = "finally"
    /\ UNCHANGED <<connVars, constVars, proc, sharedVars, loopVars, client, authVars, budget>>

\* control_drone raises while control_rover waits in an await: the gather
\* raises in main, and asyncio.run cancels the rover task when main returns
CarDroneFailed ==
    /\ proc = "alive" /\ script = "car" /\ mpc = "gather"
    /\ rpc \in {"fwd", "stop", "disarm"}
    /\ rpc' = "cancelled"
    /\ mpc' = "finally"
    /\ UNCHANGED <<connVars, constVars, proc, sharedVars, loopVars, client, authVars, cmdVars,
                   budget>>

\* asyncio.gather returns: control_rover has run to its end
CarGatherDone ==
    /\ proc = "alive" /\ script = "car" /\ mpc = "gather" /\ rpc = "done"
    /\ mpc' = "finally"
    /\ UNCHANGED <<connVars, constVars, proc, sharedVars, rpc, loopVars, client, authVars,
                   cmdVars, budget>>

\* ------------------------------------------------------------------ main thread

\* xbox: rc_config.load(); without the file the processing loop is skipped
RcLoad ==
    /\ proc = "alive" /\ script = "xbox" /\ mpc = "rc_load"
    /\ mpc' \in {"loop", "finally"}
    /\ UNCHANGED <<connVars, constVars, proc, sharedVars, rpc, loopVars, client, authVars, cmdVars,
                   budget>>

\* px4, chase: `while rover_state.running: time.sleep(1)` finds the flag false
MainLoopExit ==
    /\ proc = "alive" /\ EdgeSet(script) /\ mpc = "loop" /\ ~running
    /\ mpc' = "finally"
    /\ UNCHANGED <<connVars, constVars, proc, sharedVars, rpc, loopVars, client, authVars, cmdVars,
                   budget>>

\* Ctrl-C in the main loop: px4 and chase store False in rover_state.running
KeyboardInterrupt ==
    /\ proc = "alive" /\ mpc = "loop"
    /\ mpc' = "finally"
    /\ IF EdgeSet(script)
          THEN running' = FALSE /\ falseWrites' = falseWrites + 1
          ELSE UNCHANGED <<running, falseWrites>>
    /\ UNCHANGED <<connVars, constVars, proc, seen, keys_pressed, listener, rpc, loopVars, client,
                   authVars, cmdVars, budget>>

\* client.disconnect()
MainDisconnect ==
    /\ proc = "alive" /\ mpc = "finally"
    /\ client' = "disconnected"
    /\ mpc' = "exit"
    /\ UNCHANGED <<connVars, constVars, proc, sharedVars, rpc, loopVars, authVars, cmdVars, budget>>

\* the script ends: the interpreter exits and the daemon rover thread with it
ProcessExit ==
    /\ proc = "alive" /\ mpc = "exit"
    /\ proc' = "exited"
    /\ UNCHANGED <<connVars, constVars, sharedVars, rpc, loopVars, mpc, client, authVars, cmdVars,
                   budget>>

\* ------------------------------------------------------------------ specification

Next ==
    \/ RoverConstruct \/ RoverEnable \/ RoverArm \/ ThreadStart \/ ListenerStart
    \/ \E key \in Keys : on_press(key)
    \/ \E key \in Keys : on_release(key)
    \/ ListenerCrash
    \/ WhileTest \/ TestUp \/ TestDown \/ TestLeft \/ TestRight \/ TestSpace
    \/ Ramp \/ Send \/ FinalSend \/ Disarm \/ Disable
    \/ \E key \in PollKeys : XboxPoll(key)
    \/ XboxSend \/ XboxExit
    \/ CarForward \/ CarStop \/ CarDroneFailed \/ CarGatherDone
    \/ RcLoad \/ MainLoopExit \/ KeyboardInterrupt \/ MainDisconnect \/ ProcessExit

Spec == Init /\ [][Next]_vars

\* ------------------------------------------------------------------ the loop from mid-run states

\* values an axis of the edge-set loop takes within Near ramp steps of its
\* lower limit, of neutral and of its upper limit (every multiple of the step
\* between the limits is reached by holding a direction key long enough)
AxisSamples(step) ==
    {v \in -ONE..ONE :
        \E k \in 0..Near : v \in {-ONE + k * step, -(k * step), k * step, ONE - k * step}}

\* The rover loop at the top of a tick: the edge-set loop after any number of
\* ticks (listener running, authority held, the last command sent being the
\* current actuator state), the polled loop before its first poll.
InitStep ==
    /\ ConnDone
    /\ script \in Scripts
    /\ proc = "alive"
    /\ keys_pressed = {}
    /\ running = TRUE
    /\ listener = IF EdgeSet(script) THEN "running" ELSE "none"
    /\ rpc = "while"
    /\ IF EdgeSet(script)
          THEN /\ engine \in AxisSamples(ENGINE_STEP(script))
               /\ steer \in AxisSamples(STEER_STEP(script))
               /\ brake \in {0, ONE}
          ELSE engine = 0 /\ steer = 0 /\ brake = 0
    /\ target_engine = 0 /\ target_steer = 0 /\ new_brake = 0
    /\ controls_updated = FALSE
    /\ mpc = "loop"
    /\ client = "connected"
    /\ api_control = TRUE /\ armed = TRUE
    /\ lastIssued = IF engine = 0 /\ steer = 0 /\ brake = 0
                       THEN <<>> ELSE <<Cmd(engine, steer, brake)>>
    /\ lastRecv = lastIssued
    /\ disarms = 0 /\ disables = 0 /\ stops = 0
    /\ falseWrites = 0
    /\ budget = MaxStepTicks
    /\ sent = "none"
    /\ ramp_from = <<engine, steer>>
    /\ seen = {}

\* the rover loop and the listener, the main thread staying in its own loop
NextStep ==
    \/ \E key \in Keys : on_press(key)
    \/ \E key \in Keys : on_release(key)
    \/ WhileTest \/ TestUp \/ TestDown \/ TestLeft \/ TestRight \/ TestSpace
    \/ Ramp \/ Send \/ FinalSend \/ Disarm \/ Disable
    \/ \E key \in PollKeys : XboxPoll(key)
    \/ XboxSend \/ XboxExit

SpecStep == InitStep /\ [][NextStep]_vars

\* ------------------------------------------------------------------ the loop under held keys

\* ticks explored with the held keys unchanged (50 ticks take chase's engine
\* from 0.0 to 1.0)
MaxRampTicks == 52

\* the keys the loop tests
LoopKeys == {"up", "down", "left", "right", "space"}

\* an axis at neutral, at a limit, or three ramp steps from either
RampStarts(step) == {-ONE, -(3 * step), 0, ONE - 3 * step, ONE}

\* The edge-set loop at the top of a tick with some set of keys held; the
\* listener delivers no event while the keys stay as they are.
InitRamp ==
    /\ ConnDone
    /\ script \in {s \in Scripts : EdgeSet(s)}
    /\ proc = "alive"
    /\ keys_pressed \in SUBSET LoopKeys
    /\ running = TRUE
    /\ listener = "running"
    /\ rpc = "while"
    /\ engine \in RampStarts(ENGINE_STEP(script))
    /\ steer \in {0, ONE}
    /\ brake = 0
    /\ target_engine = 0 /\ target_steer = 0 /\ new_brake = 0
    /\ controls_updated = FALSE
    /\ mpc = "loop"
    /\ client = "connected"
    /\ api_control = TRUE /\ armed = TRUE
    /\ lastIssued = IF engine = 0 /\ steer = 0 /\ brake = 0
                       THEN <<>> ELSE <<Cmd(engine, steer, brake)>>
    /\ lastRecv = lastIssued
    /\ disarms = 0 /\ disables = 0 /\ stops = 0
    /\ falseWrites = 0
    /\ budget = MaxRampTicks
    /\ sent = "none"
    /\ ramp_from = <<engine, steer>>
    /\ seen = {}

\* the ticks of the loop, no key event and no quit arriving
NextRamp ==
    \/ WhileTest \/ TestUp \/ TestDown \/ TestLeft \/ TestRight \/ TestSpace
    \/ Ramp \/ Send

SpecRamp == InitRamp /\ [][NextRamp]_vars

\* ------------------------------------------------------------------ the loop around neutral

\* ticks explored from a state at or one step from neutral
MaxHealTicks == 2

\* chase's loop (the one that swallows an exception of the per-tick send) at
\* the top of a tick, the engine at neutral or one ramp step above it
InitHeal ==
    /\ ConnDone
    /\ script = "chase"
    /\ proc = "alive"
    /\ keys_pressed = {}
    /\ running = TRUE
    /\ listener = "running"
    /\ rpc = "while"
    /\ engine \in {0, ENGINE_STEP(script)}
    /\ steer = 0
    /\ brake = 0
    /\ target_engine = 0 /\ target_steer = 0 /\ new_brake = 0
    /\ controls_updated = FALSE
    /\ mpc = "loop"
    /\ client = "connected"
    /\ api_control = TRUE /\ armed = TRUE
    /\ lastIssued = IF engine = 0 /\ steer = 0 /\ brake = 0
                       THEN <<>> ELSE <<Cmd(engine, steer, brake)>>
    /\ lastRecv = lastIssued
    /\ disarms = 0 /\ disables = 0 /\ stops = 0
    /\ falseWrites = 0
    /\ budget = MaxHealTicks
    /\ sent = "none"
    /\ ramp_from = <<engine, steer>>
    /\ seen = {}

\* the rover loop and the listener
NextHeal ==
    \/ \E key \in Keys : on_press(key)
    \/ \E key \in Keys : on_release(key)
    \/ WhileTest \/ TestUp \/ TestDown \/ TestLeft \/ TestRight \/ TestSpace
    \/ Ramp \/ Send \/ FinalSend \/ Disarm \/ Disable

SpecHeal == InitHeal /\ [][NextHeal]_vars

\* ------------------------------------------------------------------ one tick, key sets recorded

\* ticks explored with the key-set states of the tick recorded
MaxSampleTicks == 1

\* The edge-set loop at the top of a tick at neutral, no key held; the
\* targets of every state the key set takes during the tick are recorded.
InitSample ==
    /\ ConnDone
    /\ script \in {s \in Scripts : EdgeSet(s)}
    /\ proc = "alive"
    /\ keys_pressed = {}
    /\ running = TRUE
    /\ listener = "running"
    /\ rpc = "while"
    /\ engine = 0 /\ steer = 0 /\ brake = 0
    /\ target_engine = 0 /\ target_steer = 0 /\ new_brake = 0
    /\ controls_updated = FALSE
    /\ mpc = "loop"
    /\ client = "connected"
    /\ api_control = TRUE /\ armed = TRUE
    /\ lastIssued = <<>> /\ lastRecv = <<>>
    /\ disarms = 0 /\ disables = 0 /\ stops = 0
    /\ falseWrites = 0
    /\ budget = MaxSampleTicks
    /\ sent = "none"
    /\ ramp_from = <<engine, steer>>
    /\ seen = {Targets(keys_pressed)}

SpecSample == InitSample /\ [][NextHeal]_vars

\* ------------------------------------------------------------------ the loop under fair scheduling

\* ticks of the edge-set loop explored under fair scheduling
MaxLiveTicks == 1

\* The rover loop at the top of a tick at neutral: the edge-set loop with its
\* listener running, the polled loop before its first poll.
InitLive ==
    /\ ConnDone
    /\ script \in Scripts
    /\ proc = "alive"
    /\ keys_pressed = {}
    /\ running = TRUE
    /\ listener = IF EdgeSet(script) THEN "running" ELSE "none"
    /\ rpc = "while"
    /\ engine = 0 /\ steer = 0 /\ brake = 0
    /\ target_engine = 0 /\ target_steer = 0 /\ new_brake = 0
    /\ controls_updated = FALSE
    /\ mpc = "loop"
    /\ client = "connected"
    /\ api_control = TRUE /\ armed = TRUE
    /\ lastIssued = <<>> /\ lastRecv = <<>>
    /\ disarms = 0 /\ disables = 0 /\ stops = 0
    /\ falseWrites = 0
    /\ budget = MaxLiveTicks
    /\ sent = "none"
    /\ ramp_from = <<engine, steer>>
    /\ seen = {}

\* the steps of the rover loop's own coroutine, which the event loop of its
\* thread runs whenever it is runnable
RoverLoop ==
    \/ WhileTest \/ TestUp \/ TestDown \/ TestLeft \/ TestRight \/ TestSpace
    \/ Ramp \/ Send \/ XboxSend \/ XboxExit

\* the rover loop, the listener and a transport that may raise or never answer
NextLive == NextStep \/ SendHangs

SpecLive == InitLive /\ [][NextLive]_vars /\ WF_vars(RoverLoop)

\* ------------------------------------------------------------------ the loop with no key held

\* ticks explored with no key held (three ticks ramp to neutral, the next
\* ones are the quiescent ones)
MaxQuietTicks == 5

\* an axis at neutral or three ramp steps from it
QuietStarts(step) == {-(3 * step), 0, 3 * step}

\* The edge-set loop at the top of a tick, every key released: the listener
\* delivers no event while no key is touched.
InitQuiet ==
    /\ ConnDone
    /\ script \in {s \in Scripts : EdgeSet(s)}
    /\ proc = "alive"
    /\ keys_pressed = {}
    /\ running = TRUE
    /\ listener = "running"
    /\ rpc = "while"
    /\ engine \in QuietStarts(ENGINE_STEP(script))
    /\ steer \in QuietStarts(STEER_STEP(script))
    /\ brake \in {0, ONE}
    /\ target_engine = 0 /\ target_steer = 0 /\ new_brake = 0
    /\ controls_updated = FALSE
    /\ mpc = "loop"
    /\ client = "connected"
    /\ api_control = TRUE /\ armed = TRUE
    /\ lastIssued = IF engine = 0 /\ steer = 0 /\ brake = 0
                       THEN <<>> ELSE <<Cmd(engine, steer, brake)>>
    /\ lastRecv = lastIssued
    /\ disarms = 0 /\ disables = 0 /\ stops = 0
    /\ falseWrites = 0
    /\ budget = MaxQuietTicks
    /\ sent = "none"
    /\ ramp_from = <<engine, steer>>
    /\ seen = {}

\* the ticks of the loop, run by the event loop of the rover thread whenever
\* the coroutine is runnable (asyncio.sleep returns)
SpecQuiet == InitQuiet /\ [][NextRamp]_vars /\ WF_vars(NextRamp)

\* ------------------------------------------------------------------ two-phase connection

\* time.sleep(8)
SETTLE_SEC == 8

\* latest registration delay of Rover1 explored, and the last second explored
MaxDelay == 9
MaxClock == 10

ConnScripts == {"chase", "inspect"}

\* topic names, as character sequences
RoverTopicA == <<"/", "R", "o", "v", "e", "r", "1", "/", "a">>
RoverTopicB == <<"/", "R", "o", "v", "e", "r", "1", "/", "b">>
Rover2Topic == <<"/", "R", "o", "v", "e", "r", "2", "/", "a">>
LowerTopic == <<"/", "r", "o", "v", "e", "r", "1", "/", "a">>
DroneTopic == <<"/", "D", "r", "o", "n", "e", "1", "/", "a">>

\* names a scene config can give the rover's topics (a naming error in the
\* config gives names that do not contain "Rover1")
RoverNames == {RoverTopicA, RoverTopicB, Rover2Topic, LowerTopic}

\* the substring the verification looks for: "Rover1" in chase, "Rover" in
\* client_inspect
ExpectedId(s) ==
    IF s = "chase" THEN <<"R", "o", "v", "e", "r", "1">>
                   ELSE <<"R", "o", "v", "e", "r">>

\* Python's `sub in name` on strings
Contains(sub, name) ==
    \E i \in 1..(Len(name) - Len(sub) + 1) : SubSeq(name, i, i + Len(sub) - 1) = sub

\* a search that keeps every topic of the list
MatchingAll(list, id) == list

\* [t for t in list if id in t.name]
Matching(list, id) == {t \in list : Contains(id, t)}

\* the simulator's topic list now: Drone1 registers with the scene load,
\* Rover1 regDelay seconds after it
Registered ==
    IF loadedAt < 0 THEN {}
    ELSE {DroneTopic} \cup (IF clock >= loadedAt + regDelay THEN sceneTopics ELSE {})

\* no settle delay
SettleNone == SETTLE_SEC - SETTLE_SEC

\* the seconds main sleeps between the load and the disconnect of session A
SettleDelay == SETTLE_SEC

\* the loader session, reused
OldSession == "A"

\* the session each step of main uses
LoadSession == "A"
ReconnectSession == "B"
VehicleSession == "B"

Status(s) == IF s = "A" THEN sessA ELSE sessB

InitConn ==
    /\ script \in ConnScripts
    /\ proc = "alive"
    /\ keys_pressed = {} /\ running = TRUE /\ listener = "none"
    /\ rpc = "idle" /\ mpc = "connect"
    /\ engine = 0 /\ steer = 0 /\ brake = 0
    /\ target_engine = 0 /\ target_steer = 0 /\ new_brake = 0
    /\ controls_updated = FALSE
    /\ client = "disconnected"
    /\ api_control = FALSE /\ armed = FALSE
    /\ lastIssued = <<>> /\ lastRecv = <<>>
    /\ disarms = 0 /\ disables = 0 /\ stops = 0 /\ falseWrites = 0
    /\ budget = 0
    /\ sent = "none"
    /\ ramp_from = <<engine, steer>>
    /\ seen = {}
    /\ cpc = "connectA"
    /\ sessA = "new" /\ sessB = "none"
    /\ worldClient = "none"
    /\ clock = 0 /\ loadedAt = -1 /\ wakeAt = 0
    /\ regDelay \in 0..MaxDelay
    /\ sceneTopics \in SUBSET RoverNames
    /\ hasAttr \in BOOLEAN
    /\ listB = {}
    /\ connectedAtB = -1
    /\ report = [kind |-> "none", n |-> 0]
    /\ vehicles = {}
    /\ staleUse = FALSE
    /\ phases = <<>>

\* a second passes
Tick ==
    /\ clock < MaxClock
    /\ clock' = clock + 1
    /\ UNCHANGED <<constVars, teleopVars, cpc, sessA, sessB, worldClient, loadedAt, wakeAt,
                   regDelay, sceneTopics, hasAttr, listB, connectedAtB, report,
                   vehicles, staleUse, phases>>

\* client_loader = ProjectAirSimClient(...); client_loader.connect(); an
\* exception is not handled and ends the script
ConnectA ==
    /\ cpc = "connectA"
    /\ \/ /\ sessA' = "connected"
          /\ cpc' = "load"
          /\ phases' = Append(phases, "connectA")
       \/ /\ cpc' = "crashed"
          /\ UNCHANGED <<sessA, phases>>
    /\ UNCHANGED <<constVars, teleopVars, sessB, worldClient, clock, loadedAt, wakeAt,
                   regDelay, sceneTopics, hasAttr, listB, connectedAtB, report,
                   vehicles, staleUse>>

\* world = projectairsim.World(client=client_loader, ...): triggers the load
LoadWorld ==
    /\ cpc = "load"
    /\ worldClient' = LoadSession
    /\ loadedAt' = clock
    /\ staleUse' = (staleUse \/ Status(LoadSession) # "connected")
    /\ phases' = Append(phases, "load")
    /\ cpc' = "settle"
    /\ UNCHANGED <<constVars, teleopVars, sessA, sessB, clock, wakeAt, regDelay,
                   sceneTopics, hasAttr, listB, connectedAtB, report, vehicles>>

\* time.sleep(8) is entered
SettleStart ==
    /\ cpc = "settle"
    /\ wakeAt' = clock + SettleDelay
    /\ cpc' = "sleeping"
    /\ UNCHANGED <<constVars, teleopVars, sessA, sessB, worldClient, clock, loadedAt,
                   regDelay, sceneTopics, hasAttr, listB, connectedAtB, report,
                   vehicles, staleUse, phases>>

\* time.sleep(8) returns
SettleDone ==
    /\ cpc = "sleeping"
    /\ clock >= wakeAt
    /\ phases' = Append(phases, "settle")
    /\ cpc' = "disconnectA"
    /\ UNCHANGED <<constVars, teleopVars, sessA, sessB, worldClient, clock, loadedAt,
                   wakeAt, regDelay, sceneTopics, hasAttr, listB, connectedAtB,
                   report, vehicles, staleUse>>

\* client_loader.disconnect()
DisconnectA ==
    /\ cpc = "disconnectA"
    /\ sessA' = "disconnected"
    /\ phases' = Append(phases, "disconnectA")
    /\ cpc' = "connectB"
    /\ UNCHANGED <<constVars, teleopVars, sessB, worldClient, clock, loadedAt, wakeAt,
                   regDelay, sceneTopics, hasAttr, listB, connectedAtB, report,
                   vehicles, staleUse>>

\* client = ProjectAirSimClient(...); client.connect(): the new session
\* fetches the topic list as the simulator has it now
ConnectB ==
    /\ cpc = "connectB"
    /\ \/ /\ sessB' = "connected"
          /\ listB' = Registered
          /\ connectedAtB' = clock
          /\ phases' = Append(phases, "connectB")
          /\ cpc' = "inject"
       \/ /\ cpc' = "crashed"
          /\ UNCHANGED <<sessB, listB, connectedAtB, phases>>
    /\ UNCHANGED <<constVars, teleopVars, sessA, worldClient, clock, loadedAt, wakeAt,
                   regDelay, sceneTopics, hasAttr, report, vehicles, staleUse>>

\* world.client = client
InjectClient ==
    /\ cpc = "inject"
    /\ worldClient' = ReconnectSession
    /\ cpc' = IF script = "chase" THEN "verify" ELSE "vehicles"
    /\ UNCHANGED <<constVars, teleopVars, sessA, sessB, clock, loadedAt, wakeAt, regDelay,
                   sceneTopics, hasAttr, listB, connectedAtB, report, vehicles,
                   staleUse, phases>>

\* what the verification logs.  chase: nothing without the attribute, the
\* CRITICAL error for no match, else "Verified n topics".  client_inspect: an
\* empty list without the attribute, "FOUND n TOPICS" for n > 0, else CRITICAL
VerifyReport(s, has, list) ==
    LET m == Matching(list, ExpectedId(s))
        n == Cardinality(m)
    IN IF s = "chase"
          THEN IF ~has THEN [kind |-> "skipped", n |-> 0]
               ELSE IF m = {} THEN [kind |-> "critical", n |-> 0]
               ELSE [kind |-> "verified", n |-> n]
          ELSE IF has /\ n > 0 THEN [kind |-> "verified", n |-> n]
               ELSE [kind |-> "critical", n |-> 0]

\* the topic search on session B; chase goes on to the vehicle objects,
\* client_inspect (which has built them already) to client.disconnect()
Verify ==
    /\ cpc = "verify"
    /\ report' = VerifyReport(script, hasAttr, listB)
    /\ phases' = Append(phases, "verify")
    /\ cpc' = IF script = "chase" THEN "vehicles" ELSE "disconnectB"
    /\ UNCHANGED <<constVars, teleopVars, sessA, sessB, worldClient, clock, loadedAt,
                   wakeAt, regDelay, sceneTopics, hasAttr, listB, connectedAtB,
                   vehicles, staleUse>>

\* chase: Drone(client, world, "Drone1"), Rover(client, world, "Rover1") and
\* Drone(client, world, "Rover1"); client_inspect: Drone(client, world,
\* "Drone1") and Drone(client, world, "Rover1")
ConstructVehicles ==
    /\ cpc = "vehicles"
    /\ vehicles' = {[name |-> nm, session |-> VehicleSession, world |-> worldClient] :
                      nm \in {"Drone1", "Rover1"}}
    /\ staleUse' = (staleUse \/ Status(VehicleSession) # "connected")
    /\ cpc' = IF script = "chase" THEN "handoff" ELSE "verify"
    /\ UNCHANGED <<constVars, teleopVars, sessA, sessB, worldClient, clock, loadedAt,
                   wakeAt, regDelay, sceneTopics, hasAttr, listB, connectedAtB,
                   report, phases>>

\* client_inspect: client.disconnect() ends the script
DisconnectB ==
    /\ cpc = "disconnectB"
    /\ sessB' = "disconnected"
    /\ cpc' = "done"
    /\ UNCHANGED <<constVars, teleopVars, sessA, worldClient, clock, loadedAt, wakeAt,
                   regDelay, sceneTopics, hasAttr, listB, connectedAtB, report,
                   vehicles, staleUse, phases>>

NextConn ==
    \/ Tick \/ ConnectA \/ LoadWorld \/ SettleStart \/ SettleDone \/ DisconnectA
    \/ ConnectB \/ InjectClient \/ Verify \/ ConstructVehicles \/ DisconnectB

SpecConn == InitConn /\ [][NextConn]_vars

\* ------------------------------------------------------------------ claims

\* C1: in the edge-set loop no step changes engine by more than ENGINE_STEP
\* or steering by more than STEER_STEP, whatever keys are held.
C1_RampBound ==
    [][EdgeSet(script) =>
         /\ Abs(engine' - engine) <= ENGINE_STEP(script)
         /\ Abs(steer' - steer) <= STEER_STEP(script)]_vars

\* a tick has moved engine one full step down from 1.0 and steering one full
\* step up from 0
C1_Witness ==
    /\ EdgeSet(script) /\ rpc = "send"
    /\ engine = ONE - ENGINE_STEP(script)
    /\ steer = STEER_STEP_KEYS
    /\ target_engine = 0 /\ target_steer = ONE

\* C2: once a rover loop has left its tick loop and its shutdown has run to
\* its end, the last command issued is (0, 0, 1) and disarm and
\* disable_api_control have each been called exactly once, also when the
\* final send raised.
C2_StopAndRelease ==
    (script \in Scripts /\ (rpc = "done" \/ (rpc = "failed" /\ stops > 0))) =>
        /\ lastIssued = <<StopCmd>>
        /\ disarms = 1
        /\ disables = 1

\* C3: brake is never ramped: the brake target of a tick is 1 exactly when
\* the brake key is in the set when it is sampled, and the ramp step of the
\* tick leaves brake equal to that target whatever brake was before.
C3_BrakeImmediate ==
    [][/\ (EdgeSet(script) /\ rpc = "space" /\ rpc' = "ramp") =>
            new_brake' = (IF "space" \in keys_pressed THEN ONE ELSE 0)
       /\ (EdgeSet(script) /\ rpc = "ramp" /\ rpc' = "send") =>
            brake' = new_brake]_vars

\* a tick has taken brake from 0 (in the last command) to 1 with the engine
\* still off neutral
C3_Witness ==
    /\ EdgeSet(script) /\ rpc = "send"
    /\ brake = ONE /\ new_brake = ONE
    /\ engine # 0
    /\ lastIssued # <<>>
    /\ lastIssued[1].brake = 0

\* C4: on a tick that samples the brake key as held, both targets are 0
\* whichever direction keys are held, and the engine moves exactly one ramp
\* step toward 0 (not to 0 at once) while brake becomes 1.
C4_BrakeForcesTargets ==
    [][/\ (EdgeSet(script) /\ rpc = "space" /\ rpc' = "ramp" /\ "space" \in keys_pressed) =>
            (target_engine' = 0 /\ target_steer' = 0 /\ new_brake' = ONE)
       /\ (EdgeSet(script) /\ rpc = "ramp" /\ rpc' = "send" /\ new_brake = ONE) =>
            /\ target_engine = 0 /\ target_steer = 0
            /\ brake' = ONE
            /\ Abs(engine') = Max(Abs(engine) - ENGINE_STEP(script), 0)
            /\ engine' * engine >= 0]_vars

\* the brake key was sampled with the forward key held at engine 1.0: brake
\* is 1 and the engine is one step below 1.0
C4_Witness ==
    /\ EdgeSet(script) /\ rpc = "send"
    /\ new_brake = ONE /\ brake = ONE
    /\ "up" \in keys_pressed /\ "space" \in keys_pressed
    /\ engine = ONE - ENGINE_STEP(script)

\* C5: a second quit trigger changes nothing: the flag stays false, the step
\* raises no error and performs no shutdown call, and the final stop command,
\* disarm and disable_api_control are each performed at most once.
C5_QuitIdempotent ==
    /\ [](stops <= 1 /\ disarms <= 1 /\ disables <= 1)
    /\ []((falseWrites >= 2) => ~running)
    /\ [][(falseWrites' > falseWrites /\ falseWrites >= 1) =>
            /\ ~running /\ ~running'
            /\ rpc' = rpc /\ proc' = proc
            /\ stops' = stops /\ disarms' = disarms /\ disables' = disables
            /\ lastIssued' = lastIssued]_vars

\* the flag was stored twice and the shutdown sequence ran once, to its end
C5_Witness ==
    /\ falseWrites = 2
    /\ rpc = "done"
    /\ stops = 1 /\ disarms = 1 /\ disables = 1

\* C6 as stated: the run flag is written to false at most once (the safety
\* half of "exactly once").
C6_WrittenOnce == falseWrites <= 1

\* C6 as amended: the flag is true until its first write to false, it is
\* written to false at most twice (the quit key's on_release and the
\* KeyboardInterrupt handler of main, once each), and once false it is never
\* true again.
C6_RunFlagTerminal ==
    /\ [](falseWrites <= 2)
    /\ []((falseWrites = 0) <=> running)
    /\ [][~running => ~running']_vars

\* both writers have stored False
C6_Witness == falseWrites = 2 /\ ~running /\ EdgeSet(script)

\* C7: the loop's actuator state and every command issued have engine and
\* steering in [-1, 1] and brake in [0, 1].
InRange(e, s, b) ==
    /\ ENGINE_MIN <= e /\ e <= ENGINE_MAX
    /\ STEER_MIN <= s /\ s <= STEER_MAX
    /\ 0 <= b /\ b <= ONE

C7_ActuatorBounds ==
    /\ InRange(engine, steer, brake)
    /\ \A i \in 1..Len(lastIssued) :
          InRange(lastIssued[i].engine, lastIssued[i].steering_angle, lastIssued[i].brake)

\* a tick at the limits with the keys still held: engine stays 1.0 and
\* steering -1.0
C7_Witness ==
    /\ EdgeSet(script) /\ rpc = "send"
    /\ "up" \in keys_pressed /\ "left" \in keys_pressed
    /\ target_engine = ONE /\ target_steer = -ONE
    /\ engine = ENGINE_MAX /\ steer = STEER_MIN

\* C8: the phases run in the order connect A, load, settle, disconnect A,
\* connect B, verify; A and B are never connected together; nothing is issued
\* on a session that is not connected; every vehicle object is built with
\* session B and a World whose client is B, after A was disconnected.
PhaseOrder == <<"connectA", "load", "settle", "disconnectA", "connectB", "verify">>

C8_PhaseOrder ==
    /\ Len(phases) <= Len(PhaseOrder)
    /\ phases = SubSeq(PhaseOrder, 1, Len(phases))
    /\ ~(sessA = "connected" /\ sessB = "connected")
    /\ ~staleUse
    /\ \A v \in vehicles : v.session = "B" /\ v.world = "B"
    /\ vehicles # {} => sessA = "disconnected"

\* all six phases have run and the vehicle objects exist
C8_Witness ==
    /\ phases = PhaseOrder
    /\ Cardinality(vehicles) = 2
    /\ cpc \in {"handoff", "done"}

\* C9: when session B has a topic list with N names containing the expected
\* identifier, the verification reports exactly N as verified for N >= 1,
\* logs the critical diagnostic for N = 0, and does not raise: chase goes on
\* to the vehicle objects.
ExpectedNames(s) ==
    IF s = "chase" THEN {RoverTopicA, RoverTopicB}
                   ELSE {RoverTopicA, RoverTopicB, Rover2Topic}

C9_Verification ==
    LET N == Cardinality(listB \cap ExpectedNames(script))
    IN (report.kind # "none" /\ hasAttr) =>
          /\ N >= 1 => report = [kind |-> "verified", n |-> N]
          /\ N = 0 => report = [kind |-> "critical", n |-> 0]
          /\ cpc # "crashed"
          /\ script = "chase" => cpc \in {"vehicles", "handoff"}

\* chase found no "Rover1" topic in a list that has other topics, logged the
\* critical diagnostic and built the vehicle objects
C9_Witness ==
    /\ script = "chase" /\ hasAttr
    /\ Rover2Topic \in listB
    /\ report.kind = "critical"
    /\ cpc = "handoff" /\ vehicles # {}

\* C10: with a rover that registers at least one matching topic regDelay
\* seconds after the load, the verification finds at least one when the
\* settle delay is at least regDelay, and it finds one only if session B
\* connected at least regDelay seconds after the load.
C10_SettleDelay ==
    (report.kind \in {"verified", "critical"} /\ hasAttr
        /\ sceneTopics \cap ExpectedNames(script) # {}) =>
          /\ regDelay <= SETTLE_SEC => (report.kind = "verified" /\ report.n >= 1)
          /\ report.kind = "verified" => connectedAtB - loadedAt >= regDelay

\* the rover registered at second 5, main slept its 8 seconds and the
\* verification on session B found the rover's topics
C10_Witness ==
    /\ script = "chase"
    /\ regDelay = 5
    /\ connectedAtB - loadedAt = SETTLE_SEC
    /\ report.kind = "verified" /\ report.n >= 1

\* the targets a held-key set K stands for
HeldEngine(K) ==
    IF "space" \in K THEN 0
    ELSE IF "up" \in K THEN ONE
    ELSE IF "down" \in K THEN -ONE
    ELSE 0

HeldSteer(K) ==
    IF "space" \in K THEN 0
    ELSE IF "left" \in K THEN -ONE
    ELSE IF "right" \in K THEN ONE
    ELSE 0

\* the value n ticks after c on the way to t: t from tick ceil(|t-c|/step)
\* on, n whole steps from c before that
Approach(c, t, step, n) ==
    IF n * step >= Abs(t - c) THEN t
    ELSE IF t > c THEN c + n * step
    ELSE c - n * step

\* C11: with the held keys constant the engine (and the steering) is, after
\* n ticks, n steps from its start toward the target or at the target from
\* tick ceil(|t-c|/step) on, and is never beyond the target; from engine 0.0
\* with ENGINE_STEP 0.02 and the forward key held it is below 1.0 before
\* tick 50 and exactly 1.0 from tick 50 on.
C11_RampExact ==
    LET n == MaxRampTicks - budget
        te == HeldEngine(keys_pressed)
        ts == HeldSteer(keys_pressed)
    IN /\ Min(ramp_from[1], te) <= engine /\ engine <= Max(ramp_from[1], te)
       /\ Min(ramp_from[2], ts) <= steer /\ steer <= Max(ramp_from[2], ts)
       /\ rpc = "while" =>
            /\ engine = Approach(ramp_from[1], te, ENGINE_STEP(script), n)
            /\ steer = Approach(ramp_from[2], ts, STEER_STEP(script), n)
       /\ (rpc = "while" /\ script = "chase" /\ ramp_from[1] = 0 /\ te = ONE) =>
            /\ n < 50 => engine < ONE
            /\ n >= 50 => engine = ONE

\* chase has run 50 ticks from engine 0.0 with the forward key held and the
\* engine is 1.0
C11_Witness ==
    /\ script = "chase" /\ rpc = "while"
    /\ ramp_from[1] = 0 /\ "up" \in keys_pressed /\ "space" \notin keys_pressed
    /\ budget = MaxRampTicks - 50
    /\ engine = ONE
    /\ sent = "ok"

\* C12: on every rover control path enable_api_control comes first and arm
\* second, both before any actuator command; every actuator command is issued
\* with API control enabled, the rover armed and no disarm done; disarm comes
\* while armed and disable_api_control only after disarm.
C12_AuthorityOrder ==
    /\ [](armed => api_control)
    /\ [](disables <= disarms /\ disarms <= 1)
    /\ [][(api_control' /\ ~api_control) => (~armed /\ lastIssued = <<>> /\ disarms = 0)]_vars
    /\ [][(armed' /\ ~armed) => (api_control /\ lastIssued = <<>> /\ disarms = 0)]_vars
    /\ [][((Send /\ sent' # "none") \/ FinalSend \/ XboxSend \/ CarForward \/ CarStop) =>
            (api_control /\ armed /\ disarms = 0 /\ disables = 0)]_vars
    /\ [][(disarms' > disarms) => (armed /\ api_control /\ ~armed' /\ disables = 0)]_vars
    /\ [][(disables' > disables) => (disarms = 1 /\ ~armed /\ api_control /\ ~api_control')]_vars

\* control_rover of drone_car has run to its end: both commands were
\* received and authority was released
C12_Witness ==
    /\ script = "car" /\ rpc = "done"
    /\ lastRecv = <<StopCmd>> /\ stops = 1
    /\ disarms = 1 /\ disables = 1
    /\ ~armed /\ ~api_control

\* C13: in every teleoperation loop a per-tick send that raised is survived:
\* the process is alive and the loop has not been left through the exception.
C13_SendFailureSurvived ==
    (script \in Scripts /\ sent = "failed" /\ stops = 0) =>
        (proc = "alive" /\ rpc # "failed")

\* C14: when Rover construction, enable_api_control or arm has failed in a
\* teleoperation script, the process has terminated: the main loop does not
\* go on without the rover path.
C14_SetupFailureFatal ==
    (script \in Scripts /\ rpc = "failed" /\ ~armed /\ lastIssued = <<>>) =>
        proc = "exited"

\* C15: once the keyboard listener has died with the run flag still true the
\* process terminates: the dispatch loop starts no further tick against the
\* dead listener.
C15_DeadListenerStops ==
    [][(listener = "dead" /\ running /\ proc = "alive") =>
          ~(WhileTest /\ rpc' = "up")]_vars

\* C16: after the quit signal the rover loop's shutdown sequence is complete
\* before the client is disconnected or the process exits: with the loop
\* entered, the run flag false and the client disconnected (or the process
\* gone) the rover path has sent the final stop command and released
\* authority.
C16_ShutdownBeforeDisconnect ==
    (EdgeSet(script) /\ ~running /\ rpc # "failed" /\ listener # "none"
        /\ (client = "disconnected" \/ proc = "exited")) =>
        (rpc = "done" /\ stops = 1 /\ ~armed /\ ~api_control)

\* C17: in the edge-set loop the tick's update flag is true exactly when the
\* tick changed engine, steering or brake, and a command (the tick's actuator
\* state) is sent exactly when that flag is true or |engine| > 0.01 or
\* |steering| > 0.01: every step of a deceleration is sent, the one reaching
\* neutral included, and an unchanged neutral tick sends nothing.
C17_DispatchCondition ==
    [][EdgeSet(script) =>
         /\ Ramp => (controls_updated' <=>
                        (engine' # engine \/ steer' # steer \/ brake' # brake))
         /\ Send => /\ (sent' # "none") <=>
                          (controls_updated \/ Abs(engine) > EPSILON \/ Abs(steer) > EPSILON)
                    /\ sent' # "none" => lastIssued' = <<Cmd(engine, steer, brake)>>
                    /\ sent' = "none" => lastIssued' = lastIssued
                    /\ (~controls_updated /\ engine = 0 /\ steer = 0) => sent' = "none"]_vars

\* a deceleration from three steps below neutral has reached engine 0 and
\* steering 0 on its third tick, and that tick's command (0, 0, 0) was sent
C17_Witness ==
    /\ EdgeSet(script) /\ rpc = "while"
    /\ ramp_from = <<-(3 * ENGINE_STEP(script)), 0>>
    /\ keys_pressed = {}
    /\ budget = MaxRampTicks - 3
    /\ engine = 0 /\ steer = 0
    /\ sent = "ok" /\ lastRecv = <<Cmd(0, 0, 0)>>

\* C18: in the loop that swallows send failures, a tick that follows a tick
\* whose send failed, and whose own send does not fail, leaves the vehicle
\* with the loop's current actuator state as its last received command.
C18_SelfHeals ==
    [][(script = "chase" /\ Send /\ sent = "failed" /\ sent' # "failed") =>
          lastRecv' = <<Cmd(engine', steer', brake')>>]_vars

\* C19: on_press(k) leaves k in the set and changes nothing when k is in it
\* already; on_release(k) leaves k out of the set, for the quit key too, and
\* changes nothing when k is not in it; on_release of the quit key sets
\* running false and stops the listener, on_release of another key leaves
\* running as it is.
C19_HeldSetCallbacks ==
    [][\A k \in Keys :
         /\ on_press(k) =>
              /\ k \in keys_pressed'
              /\ k \in keys_pressed => keys_pressed' = keys_pressed
              /\ running' = running
         /\ on_release(k) =>
              /\ k \notin keys_pressed'
              /\ k \notin keys_pressed => keys_pressed' = keys_pressed
              /\ k = QuitKey => (~running' /\ listener' = "stopped")
              /\ k # QuitKey => (running' = running /\ listener' = listener)]_vars

\* C20: with the held keys K unchanged through the tests of a tick, the
\* targets the ramp works with are: without space, engine 1 if up is in K
\* (down or not), -1 if only down is, else 0; steering -1 if left is in K
\* (right or not), 1 if only right is, else 0; brake 0.  With space in K:
\* engine 0, steering 0, brake 1.
C20_TargetDerivation ==
    LET K == keys_pressed
    IN (EdgeSet(script) /\ rpc = "ramp") =>
         IF "space" \in K
            THEN target_engine = 0 /\ target_steer = 0 /\ new_brake = ONE
            ELSE /\ target_engine = (CASE "up" \in K -> ONE
                                       [] "up" \notin K /\ "down" \in K -> -ONE
                                       [] OTHER -> 0)
                 /\ target_steer = (CASE "left" \in K -> -ONE
                                      [] "left" \notin K /\ "right" \in K -> ONE
                                      [] OTHER -> 0)
                 /\ new_brake = 0

\* all four direction keys held without space: forward and left have won
C20_Witness ==
    /\ EdgeSet(script) /\ rpc = "ramp"
    /\ keys_pressed = {"up", "down", "left", "right"}
    /\ target_engine = ONE /\ target_steer = -ONE /\ new_brake = 0

\* C21: the targets a tick works with are those of the held-key set as it was
\* at one instant of the tick: at the ramp, <<target_engine, target_steer,
\* new_brake>> is among the targets of the key-set states the tick has seen.
C21_SingleInstant ==
    (EdgeSet(script) /\ rpc = "ramp" /\ seen # {}) =>
        <<target_engine, target_steer, new_brake>> \in seen

\* C22: once running is false the rover loop eventually leaves its tick loop
\* (for its shutdown sequence, or through a send's exception), under fair
\* scheduling of the loop and whatever the transport does with a send.
C22_QuitLeavesLoop ==
    (~running /\ proc = "alive") ~>
        (rpc \in {"final_send", "disarm", "disable", "done", "failed"})

\* the value one step up or down from v, kept within [-1, 1]
StepUp(v, step) == IF v + step > ONE THEN ONE ELSE v + step
StepDown(v, step) == IF v - step < -ONE THEN -ONE ELSE v - step

\* C23: in the polled loop the brake key gives brake 1 and engine 0 and
\* leaves steering; the reset key gives (0, 0, 0); W/S move the engine and
\* A/D the steering by one step clamped to [-1, 1], leaving the other axis;
\* every key but quit is followed in its tick by one command carrying the
\* updated state; the quit key clears running, sends nothing and the loop is
\* left at the next test.
C23_PolledKeys ==
    [][script = "xbox" =>
         /\ \A key \in PollKeys :
              XboxPoll(key) =>
                 /\ key = " " => (brake' = ONE /\ engine' = 0 /\ steer' = steer)
                 /\ key = "0" => (brake' = 0 /\ engine' = 0 /\ steer' = 0)
                 /\ key \in {"w", "W"} =>
                      (engine' = StepUp(engine, ENGINE_STEP_XBOX) /\ steer' = steer)
                 /\ key \in {"s", "S"} =>
                      (engine' = StepDown(engine, ENGINE_STEP_XBOX) /\ steer' = steer)
                 /\ key \in {"a", "A"} =>
                      (steer' = StepDown(steer, STEER_STEP_XBOX) /\ engine' = engine)
                 /\ key \in {"d", "D"} =>
                      (steer' = StepUp(steer, STEER_STEP_XBOX) /\ engine' = engine)
                 /\ key \notin {"q", "Q"} => (rpc' = "send" /\ running')
                 /\ key \in {"q", "Q"} =>
                      /\ ~running' /\ rpc' = "while"
                      /\ engine' = engine /\ steer' = steer /\ brake' = brake
                 /\ lastIssued' = lastIssued /\ sent' = sent
         /\ XboxSend =>
              /\ lastIssued' = <<Cmd(engine, steer, brake)>>
              /\ sent' \in {"ok", "failed"}
              /\ rpc' # "send"
              /\ engine' = engine /\ steer' = steer /\ brake' = brake
         /\ (rpc = "while" /\ ~running) => rpc' # "send"
         /\ XboxExit => (lastIssued' = lastIssued /\ rpc' = "disarm")]_vars

\* the brake key was polled with the steering two steps left of centre: the
\* command received has engine 0, brake 1 and the steering kept
C23_Witness ==
    /\ script = "xbox" /\ rpc = "while" /\ running
    /\ engine = 0 /\ brake = ONE /\ steer = -(2 * STEER_STEP_XBOX)
    /\ lastRecv = <<Cmd(0, -(2 * STEER_STEP_XBOX), ONE)>>
    /\ sent = "ok"

\* C26: in the polled loop brake = 1 implies engine = 0, in the loop's state
\* and in every command issued.
C26_BrakeMeansNoEngine ==
    script = "xbox" =>
        /\ brake = ONE => engine = 0
        /\ \A i \in 1..Len(lastIssued) :
              lastIssued[i].brake = ONE => lastIssued[i].engine = 0

\* the brake key and a steering key were polled: the command issued last has
\* brake 1, engine 0 and the steering one step right of centre
C26_Witness ==
    /\ script = "xbox" /\ rpc = "while"
    /\ brake = ONE /\ engine = 0 /\ steer = STEER_STEP_XBOX
    /\ lastIssued = <<Cmd(0, STEER_STEP_XBOX, ONE)>>

\* C24: at the end of every tick of the edge-set loop the last command
\* issued carries the loop's current (engine, steering, brake), or none has
\* been issued and the state is the neutral (0, 0, 0); a send that succeeds
\* leaves the vehicle with that same command, so a vehicle that has received
\* every command issued holds the loop's state.
C24_IssuedIsCurrent ==
    (EdgeSet(script) /\ rpc = "while") =>
        /\ \/ lastIssued = <<Cmd(engine, steer, brake)>>
           \/ (lastIssued = <<>> /\ engine = 0 /\ steer = 0 /\ brake = 0)
        /\ sent = "ok" => lastRecv = lastIssued
        /\ lastRecv = lastIssued =>
              \/ lastRecv = <<Cmd(engine, steer, brake)>>
              \/ (lastRecv = <<>> /\ engine = 0 /\ steer = 0 /\ brake = 0)

\* the second tick kept the brake on at neutral and sent nothing: the last
\* command issued, by the first tick, is the loop's state (0, 0, 1)
C24_Witness ==
    /\ EdgeSet(script) /\ rpc = "while" /\ running
    /\ budget = 0 /\ sent = "none"
    /\ engine = 0 /\ steer = 0 /\ brake = ONE
    /\ lastIssued = <<StopCmd>> /\ lastRecv = <<StopCmd>>

\* C25: with no key held and running true, the loop (as long as its process
\* lives) eventually has engine 0, steering 0 and brake 0 for ever, and from
\* then on its ticks send nothing.
C25_Quiescence ==
    <>[](\/ proc = "exited"
         \/ /\ engine = 0 /\ steer = 0 /\ brake = 0
            /\ rpc = "while" => sent = "none")

\* three ticks have ramped engine and steering to neutral and released the
\* brake, and the fourth tick has sent nothing
C25_Witness ==
    /\ EdgeSet(script) /\ rpc = "while" /\ running /\ keys_pressed = {}
    /\ ramp_from = <<3 * ENGINE_STEP(script), -(3 * STEER_STEP_KEYS)>>
    /\ budget = MaxQuietTicks - 4
    /\ engine = 0 /\ steer = 0 /\ brake = 0
    /\ sent = "none"
    /\ lastRecv = <<Cmd(0, 0, 0)>>

=============================================================================
